---- MODULE Spec2Model ----
(***************************************************************************)
(* The HTTP edge of checkpointz: pkg/api/handler.go.                       *)
(*                                                                         *)
(* One request at a time travels through wrappedHandler: the route        *)
(* template is derived, the request is counted, the route's handler runs   *)
(* (validate content type, parse the identifier, call the provider, build  *)
(* the envelope), and the wrapper writes either an error response or the   *)
(* marshalled body, then the deferred ObserveResponse runs.                *)
(*                                                                         *)
(* Strings are TLA+ strings; Len, SubSeq and \o act on them as on Go       *)
(* strings of ASCII bytes.                                                  *)
(***************************************************************************)
EXTENDS Integers, Sequences, FiniteSets, TLC

VARIABLES pc, req, contentType, registeredPath, response, err, data, w,
          trace, log, served, ctxCancelled

vars == <<pc, req, contentType, registeredPath, response, err, data, w,
          trace, log, served, ctxCancelled>>

\* Number of requests one behaviour serves, one after the other.
MaxRequests == 2

-----------------------------------------------------------------------------
(* Values shared by the whole package *)

Nil == "<nil>"

ContentTypeJSON == "application/json"
ContentTypeSSZ == "application/octet-stream"
ContentTypes == {ContentTypeJSON, ContentTypeSSZ}

StatusOK == 200
StatusBadRequest == 400
StatusUnsupportedMediaType == 415
StatusInternalServerError == 500

DataVersionPhase0 == "phase0"
DataVersionAltair == "altair"
DataVersionBellatrix == "bellatrix"
\* A version tag this gateway does not know (a fork newer than Bellatrix).
DataVersionFuture == "capella"
DataVersions == {DataVersionPhase0, DataVersionAltair, DataVersionBellatrix,
                 DataVersionFuture}

IDRoot == "root"
IDGenesis == "genesis"
IDSlot == "slot"
IDFinalized == "finalized"
IDHead == "head"
IDInvalid == "invalid"
IDTypes == {IDRoot, IDGenesis, IDSlot, IDFinalized, IDHead}

EmptyMap == [k \in {} |-> ""]

Event(op, code, info) == [op |-> op, code |-> code, info |-> info]

ProviderOps == {"BeaconBlock", "BeaconState", "BlockRoot",
                "FinalityCheckpoints", "V1Status", "V1BeaconSlots",
                "V1BeaconSlot"}

-----------------------------------------------------------------------------
(* Content negotiation and identifier parsing (pkg/api/content_type.go,    *)
(* pkg/service/eth): not part of handler.go, modelled from spec sections   *)
(* 3, 4.1 and 4.2.                                                         *)

Accepts == {"", ContentTypeJSON, ContentTypeSSZ}

NewContentTypeFromRequest(accept) ==
    IF accept = ContentTypeSSZ THEN ContentTypeSSZ ELSE ContentTypeJSON

ValidateContentType(ct, allowed) ==
    IF ct \in allowed THEN Nil ELSE "unsupported content-type"

Digits == {"0", "1", "2", "3", "4", "5", "6", "7", "8", "9"}
HexDigits == Digits \cup {"a", "b", "c", "d", "e", "f",
                          "A", "B", "C", "D", "E", "F"}
RootHexLen == 64

AllIn(s, chars) == \A i \in 1..Len(s) : SubSeq(s, i, i) \in chars

HasPrefix(s, prefix) ==
    /\ Len(s) >= Len(prefix)
    /\ SubSeq(s, 1, Len(prefix)) = prefix

NewSlotFromString(s) ==
    IF Len(s) > 0 /\ AllIn(s, Digits)
    THEN [type |-> IDSlot, err |-> Nil]
    ELSE [type |-> IDInvalid, err |-> "invalid slot"]

NewIdentifier(s) ==
    IF s = "head" THEN [type |-> IDHead, err |-> Nil]
    ELSE IF s = "genesis" THEN [type |-> IDGenesis, err |-> Nil]
    ELSE IF s = "finalized" THEN [type |-> IDFinalized, err |-> Nil]
    ELSE IF HasPrefix(s, "0x")
    THEN IF Len(s) = 2 + RootHexLen /\ AllIn(SubSeq(s, 3, Len(s)), HexDigits)
         THEN [type |-> IDRoot, err |-> Nil]
         ELSE [type |-> IDInvalid, err |-> "invalid identifier"]
    ELSE IF NewSlotFromString(s).err = Nil
    THEN [type |-> IDSlot, err |-> Nil]
    ELSE [type |-> IDInvalid, err |-> "invalid identifier"]

NewBlockIdentifier(s) == NewIdentifier(s)
NewStateIdentifier(s) == NewIdentifier(s)

-----------------------------------------------------------------------------
(* The response envelope (pkg/api/response.go): modelled from spec 4.3.    *)

HTTPResponse(status, resolvers) ==
    [StatusCode |-> status, resolvers |-> resolvers, Headers |-> EmptyMap]

\* &HTTPResponse{}
ZeroResponse == HTTPResponse(0, EmptyMap)

NewSuccessResponse(resolvers) == HTTPResponse(StatusOK, resolvers)
NewInternalServerErrorResponse(resolvers) ==
    HTTPResponse(StatusInternalServerError, resolvers)
NewBadRequestResponse(resolvers) == HTTPResponse(StatusBadRequest, resolvers)
NewUnsupportedMediaTypeResponse(resolvers) ==
    HTTPResponse(StatusUnsupportedMediaType, resolvers)

SetHeader(headers, name, value) ==
    [k \in (DOMAIN headers) \cup {name} |->
        IF k = name THEN value ELSE headers[k]]

SetCacheControl(rsp, directive) ==
    [rsp EXCEPT !.Headers = SetHeader(rsp.Headers, "Cache-Control", directive)]

-----------------------------------------------------------------------------
(* What the providers (h.eth, h.checkpointz) can answer                    *)

ProviderFailure == "provider failure"

BeaconBlockOutcomes ==
    {[err |-> ProviderFailure, Version |-> ""]}
        \cup {[err |-> Nil, Version |-> v] : v \in DataVersions}

\* state: "nil" is a nil *[]byte returned without an error
BeaconStateOutcomes ==
    {[err |-> ProviderFailure, state |-> "nil"],
     [err |-> Nil, state |-> "nil"],
     [err |-> Nil, state |-> "bytes"]}

PlainOutcomes == {[err |-> ProviderFailure], [err |-> Nil]}

\* What a handler hands back to wrappedHandler, and the provider calls it made
Ret(rsp, e, calls) == [rsp |-> rsp, err |-> e, calls |-> calls]

\* A provider operation the handler invoked, and what it answered
Call(op, result) == [op |-> op, result |-> result]

Resolvers(json, ssz) == (ContentTypeJSON :> json) @@ (ContentTypeSSZ :> ssz)
JSONResolver(json) == (ContentTypeJSON :> json)
SSZResolver(ssz) == (ContentTypeSSZ :> ssz)

-----------------------------------------------------------------------------
(* The route handlers                                                      *)

\* Mutant: the Bellatrix case registers the Altair encoders
BlockVersionResponse_BellatrixAsAltair(block) ==
    IF block.Version = DataVersionPhase0
    THEN Ret(NewSuccessResponse(Resolvers("Phase0.MarshalJSON", "Phase0.MarshalSSZ")), Nil, <<>>)
    ELSE IF block.Version = DataVersionAltair
    THEN Ret(NewSuccessResponse(Resolvers("Altair.MarshalJSON", "Altair.MarshalSSZ")), Nil, <<>>)
    ELSE IF block.Version = DataVersionBellatrix
    THEN Ret(NewSuccessResponse(Resolvers("Altair.MarshalJSON", "Altair.MarshalSSZ")), Nil, <<>>)
    ELSE Ret(NewInternalServerErrorResponse(EmptyMap), "unknown block version", <<>>)

\* Mutant: an unknown version is served with the newest known encoders
BlockVersionResponse_DefaultBellatrix(block) ==
    IF block.Version = DataVersionPhase0
    THEN Ret(NewSuccessResponse(Resolvers("Phase0.MarshalJSON", "Phase0.MarshalSSZ")), Nil, <<>>)
    ELSE IF block.Version = DataVersionAltair
    THEN Ret(NewSuccessResponse(Resolvers("Altair.MarshalJSON", "Altair.MarshalSSZ")), Nil, <<>>)
    ELSE Ret(NewSuccessResponse(Resolvers("Bellatrix.MarshalJSON", "Bellatrix.MarshalSSZ")), Nil, <<>>)

\* switch block.Version
BlockVersionResponse(block) ==
    IF block.Version = DataVersionPhase0
    THEN Ret(NewSuccessResponse(Resolvers("Phase0.MarshalJSON", "Phase0.MarshalSSZ")), Nil, <<>>)
    ELSE IF block.Version = DataVersionAltair
    THEN Ret(NewSuccessResponse(Resolvers("Altair.MarshalJSON", "Altair.MarshalSSZ")), Nil, <<>>)
    ELSE IF block.Version = DataVersionBellatrix
    THEN Ret(NewSuccessResponse(Resolvers("Bellatrix.MarshalJSON", "Bellatrix.MarshalSSZ")), Nil, <<>>)
    ELSE Ret(NewInternalServerErrorResponse(EmptyMap), "unknown block version", <<>>)

\* switch blockID.Type()
BlocksCacheControl(rsp, idType) ==
    IF idType \in {IDRoot, IDGenesis, IDSlot}
    THEN SetCacheControl(rsp, "public, s-max-age=6000")
    ELSE IF idType = IDFinalized
    THEN SetCacheControl(rsp, "public, s-max-age=30")
    ELSE IF idType = IDHead
    THEN SetCacheControl(rsp, "public, s-max-age=30")
    ELSE rsp

\* Mutant: Head is given a TTL longer than Finalized's
StatesCacheControl_LongHead(rsp, idType) ==
    IF idType \in {IDRoot, IDGenesis, IDSlot}
    THEN SetCacheControl(rsp, "public, s-max-age=6000")
    ELSE IF idType = IDFinalized
    THEN SetCacheControl(rsp, "public, s-max-age=180")
    ELSE IF idType = IDHead
    THEN SetCacheControl(rsp, "public, s-max-age=300")
    ELSE rsp

\* switch id.Type()
StatesCacheControl(rsp, idType) ==
    IF idType \in {IDRoot, IDGenesis, IDSlot}
    THEN SetCacheControl(rsp, "public, s-max-age=6000")
    ELSE IF idType = IDFinalized
    THEN SetCacheControl(rsp, "public, s-max-age=180")
    ELSE IF idType = IDHead
    THEN SetCacheControl(rsp, "public, s-max-age=30")
    ELSE rsp

\* Mutant: blocks of the oldest fork are treated as immutable whatever the
\* identifier
handleEthV2BeaconBlocks_TTLByVersion(p, ct, out) ==
    IF ValidateContentType(ct, {ContentTypeJSON, ContentTypeSSZ}) # Nil
    THEN Ret(NewUnsupportedMediaTypeResponse(EmptyMap),
             ValidateContentType(ct, {ContentTypeJSON, ContentTypeSSZ}), <<>>)
    ELSE LET blockID == NewBlockIdentifier(p) IN
    IF blockID.err # Nil
    THEN Ret(NewBadRequestResponse(EmptyMap), blockID.err, <<>>)
    ELSE LET calls == <<Call("BeaconBlock", IF out.err # Nil THEN "error" ELSE out.Version)>> IN
    IF out.err # Nil
    THEN Ret(NewInternalServerErrorResponse(EmptyMap), out.err, calls)
    ELSE LET byVersion == BlockVersionResponse(out) IN
    IF byVersion.err # Nil
    THEN Ret(byVersion.rsp, byVersion.err, calls)
    ELSE IF out.Version = DataVersionPhase0
    THEN Ret(BlocksCacheControl(byVersion.rsp, IDRoot), Nil, calls)
    ELSE Ret(BlocksCacheControl(byVersion.rsp, blockID.type), Nil, calls)

handleEthV2BeaconBlocks(p, ct, out) ==
    IF ValidateContentType(ct, {ContentTypeJSON, ContentTypeSSZ}) # Nil
    THEN Ret(NewUnsupportedMediaTypeResponse(EmptyMap),
             ValidateContentType(ct, {ContentTypeJSON, ContentTypeSSZ}), <<>>)
    ELSE LET blockID == NewBlockIdentifier(p) IN
    IF blockID.err # Nil
    THEN Ret(NewBadRequestResponse(EmptyMap), blockID.err, <<>>)
    ELSE LET calls == <<Call("BeaconBlock", IF out.err # Nil THEN "error" ELSE out.Version)>> IN
    IF out.err # Nil
    THEN Ret(NewInternalServerErrorResponse(EmptyMap), out.err, calls)
    ELSE LET byVersion == BlockVersionResponse(out) IN
    IF byVersion.err # Nil
    THEN Ret(byVersion.rsp, byVersion.err, calls)
    ELSE Ret(BlocksCacheControl(byVersion.rsp, blockID.type), Nil, calls)

\* Mutant: the state is fetched before the content type is validated
handleEthV2DebugBeaconStates_FetchFirst(p, ct, out) ==
    LET calls == <<Call("BeaconState", IF out.err # Nil THEN "error" ELSE out.state)>> IN
    IF ValidateContentType(ct, {ContentTypeSSZ}) # Nil
    THEN Ret(NewUnsupportedMediaTypeResponse(EmptyMap),
             ValidateContentType(ct, {ContentTypeSSZ}), calls)
    ELSE LET id == NewStateIdentifier(p) IN
    IF id.err # Nil
    THEN Ret(NewBadRequestResponse(EmptyMap), id.err, calls)
    ELSE IF out.err # Nil
    THEN Ret(NewInternalServerErrorResponse(EmptyMap), out.err, calls)
    ELSE IF out.state = "nil"
    THEN Ret(NewInternalServerErrorResponse(EmptyMap), "state not found", calls)
    ELSE Ret(StatesCacheControl(NewSuccessResponse(SSZResolver("state.bytes")), id.type),
             Nil, calls)

handleEthV2DebugBeaconStates(p, ct, out) ==
    IF ValidateContentType(ct, {ContentTypeSSZ}) # Nil
    THEN Ret(NewUnsupportedMediaTypeResponse(EmptyMap),
             ValidateContentType(ct, {ContentTypeSSZ}), <<>>)
    ELSE LET id == NewStateIdentifier(p) IN
    IF id.err # Nil
    THEN Ret(NewBadRequestResponse(EmptyMap), id.err, <<>>)
    ELSE LET calls == <<Call("BeaconState", IF out.err # Nil THEN "error" ELSE out.state)>> IN
    IF out.err # Nil
    THEN Ret(NewInternalServerErrorResponse(EmptyMap), out.err, calls)
    ELSE IF out.state = "nil"
    THEN Ret(NewInternalServerErrorResponse(EmptyMap), "state not found", calls)
    ELSE Ret(StatesCacheControl(NewSuccessResponse(SSZResolver("state.bytes")), id.type),
             Nil, calls)

handleCheckpointzStatus(p, ct, out) ==
    IF ValidateContentType(ct, {ContentTypeJSON}) # Nil
    THEN Ret(NewUnsupportedMediaTypeResponse(EmptyMap),
             ValidateContentType(ct, {ContentTypeJSON}), <<>>)
    ELSE LET calls == <<Call("V1Status", IF out.err # Nil THEN "error" ELSE "ok")>> IN
    IF out.err # Nil
    THEN Ret(NewInternalServerErrorResponse(EmptyMap), out.err, calls)
    ELSE Ret(NewSuccessResponse(JSONResolver("json.Marshal(status)")), Nil, calls)

handleCheckpointzBeaconSlots(p, ct, out) ==
    IF ValidateContentType(ct, {ContentTypeJSON}) # Nil
    THEN Ret(NewUnsupportedMediaTypeResponse(EmptyMap),
             ValidateContentType(ct, {ContentTypeJSON}), <<>>)
    ELSE LET calls == <<Call("V1BeaconSlots", IF out.err # Nil THEN "error" ELSE "ok")>> IN
    IF out.err # Nil
    THEN Ret(NewInternalServerErrorResponse(EmptyMap), out.err, calls)
    ELSE Ret(NewSuccessResponse(JSONResolver("json.Marshal(slots)")), Nil, calls)

\* Mutant: the parse error is dropped and the provider is asked anyway
handleCheckpointzBeaconSlot_IgnoreParseError(p, ct, out) ==
    IF ValidateContentType(ct, {ContentTypeJSON}) # Nil
    THEN Ret(NewUnsupportedMediaTypeResponse(EmptyMap),
             ValidateContentType(ct, {ContentTypeJSON}), <<>>)
    ELSE LET calls == <<Call("V1BeaconSlot", IF out.err # Nil THEN "error" ELSE "ok")>> IN
    IF out.err # Nil
    THEN Ret(NewInternalServerErrorResponse(EmptyMap), out.err, calls)
    ELSE Ret(NewSuccessResponse(JSONResolver("json.Marshal(slot)")), Nil, calls)

handleCheckpointzBeaconSlot(p, ct, out) ==
    IF ValidateContentType(ct, {ContentTypeJSON}) # Nil
    THEN Ret(NewUnsupportedMediaTypeResponse(EmptyMap),
             ValidateContentType(ct, {ContentTypeJSON}), <<>>)
    ELSE LET slot == NewSlotFromString(p) IN
    IF slot.err # Nil
    THEN Ret(NewBadRequestResponse(EmptyMap), slot.err, <<>>)
    ELSE LET calls == <<Call("V1BeaconSlot", IF out.err # Nil THEN "error" ELSE "ok")>> IN
    IF out.err # Nil
    THEN Ret(NewInternalServerErrorResponse(EmptyMap), out.err, calls)
    ELSE Ret(NewSuccessResponse(JSONResolver("json.Marshal(slot)")), Nil, calls)

handleEthV1BeaconStatesHeadFinalityCheckpoints(p, ct, out) ==
    IF ValidateContentType(ct, {ContentTypeJSON}) # Nil
    THEN Ret(NewUnsupportedMediaTypeResponse(EmptyMap),
             ValidateContentType(ct, {ContentTypeJSON}), <<>>)
    ELSE LET id == NewStateIdentifier(p) IN
    IF id.err # Nil
    THEN Ret(NewBadRequestResponse(EmptyMap), id.err, <<>>)
    ELSE LET calls == <<Call("FinalityCheckpoints", IF out.err # Nil THEN "error" ELSE "ok")>> IN
    IF out.err # Nil
    THEN Ret(NewInternalServerErrorResponse(EmptyMap), out.err, calls)
    ELSE Ret(NewSuccessResponse(JSONResolver("json.Marshal(finality)")), Nil, calls)

\* Mutant: the identifier is parsed before the content type is validated
handleEthV1BeaconBlocksRoot_ParseFirst(p, ct, out) ==
    LET id == NewBlockIdentifier(p) IN
    IF id.err # Nil
    THEN Ret(NewBadRequestResponse(EmptyMap), id.err, <<>>)
    ELSE IF ValidateContentType(ct, {ContentTypeJSON}) # Nil
    THEN Ret(NewUnsupportedMediaTypeResponse(EmptyMap),
             ValidateContentType(ct, {ContentTypeJSON}), <<>>)
    ELSE LET calls == <<Call("BlockRoot", IF out.err # Nil THEN "error" ELSE "ok")>> IN
    IF out.err # Nil
    THEN Ret(NewInternalServerErrorResponse(EmptyMap), out.err, calls)
    ELSE Ret(NewSuccessResponse(JSONResolver("json.Marshal(wrapped)")), Nil, calls)

handleEthV1BeaconBlocksRoot(p, ct, out) ==
    IF ValidateContentType(ct, {ContentTypeJSON}) # Nil
    THEN Ret(NewUnsupportedMediaTypeResponse(EmptyMap),
             ValidateContentType(ct, {ContentTypeJSON}), <<>>)
    ELSE LET id == NewBlockIdentifier(p) IN
    IF id.err # Nil
    THEN Ret(NewBadRequestResponse(EmptyMap), id.err, <<>>)
    ELSE LET calls == <<Call("BlockRoot", IF out.err # Nil THEN "error" ELSE "ok")>> IN
    IF out.err # Nil
    THEN Ret(NewInternalServerErrorResponse(EmptyMap), out.err, calls)
    ELSE Ret(NewSuccessResponse(JSONResolver("json.Marshal(wrapped)")), Nil, calls)

-----------------------------------------------------------------------------
(* The envelope's MarshalAs and the two response writers                   *)
(* (pkg/api/response.go, pkg/api/http.go): modelled from spec 4.3, 4.5, 6. *)

\* ok: whether the selected producer returns bytes (TRUE) or an error
MarshalAs(rsp, ct, ok) ==
    IF ct \notin DOMAIN rsp.resolvers
    THEN [data |-> "", err |-> "no producer for content type", invoked |-> <<>>]
    ELSE IF ok
    THEN [data |-> rsp.resolvers[ct], err |-> Nil, invoked |-> <<rsp.resolvers[ct]>>]
    ELSE [data |-> "", err |-> "marshal failure", invoked |-> <<rsp.resolvers[ct]>>]

NewResponseWriter == [status |-> 0, headers |-> EmptyMap, body |-> ""]

WriteErrorResponse(rw, msg, statusCode) ==
    [status |-> IF statusCode = 0 THEN StatusInternalServerError ELSE statusCode,
     headers |-> SetHeader(rw.headers, "Content-Type", ContentTypeJSON),
     body |-> msg]

WriteContentAwareResponse(rw, bytes, ct) ==
    [status |-> StatusOK,
     headers |-> SetHeader(rw.headers, "Content-Type", ct),
     body |-> bytes]

-----------------------------------------------------------------------------
(* Routing                                                                 *)

Route(name, prefix, key, suffix) ==
    [name |-> name, prefix |-> prefix, key |-> key, suffix |-> suffix]

\* Handler.Register: key = "" for a route without a path parameter
Routes ==
    {Route("handleEthV1BeaconBlocksRoot", "/eth/v1/beacon/blocks/", "block_id", "/root"),
     Route("handleEthV1BeaconStatesHeadFinalityCheckpoints", "/eth/v1/beacon/states/",
           "state_id", "/finality_checkpoints"),
     Route("handleEthV2BeaconBlocks", "/eth/v2/beacon/blocks/", "block_id", ""),
     Route("handleEthV2DebugBeaconStates", "/eth/v2/debug/beacon/states/", "state_id", ""),
     Route("handleCheckpointzStatus", "/checkpointz/v1/status", "", ""),
     Route("handleCheckpointzBeaconSlots", "/checkpointz/v1/beacon/slots", "", ""),
     Route("handleCheckpointzBeaconSlot", "/checkpointz/v1/beacon/slots/", "slot", "")}

\* The pattern a route was registered under
Template(route) ==
    IF route.key = "" THEN route.prefix
    ELSE route.prefix \o ":" \o route.key \o route.suffix

RootZero == "0x0000000000000000000000000000000000000000000000000000000000000000"

\* Path segments a client may put where the route has a parameter
PathValues == {"head", "genesis", "finalized", "123", "1", RootZero, "notanumber"}

\* strings.Index: 0 when substr does not occur in s
Index(s, substr) ==
    LET hits == {i \in 1..(Len(s) - Len(substr) + 1) :
                    SubSeq(s, i, i + Len(substr) - 1) = substr}
    IN IF hits = {} THEN 0 ELSE CHOOSE i \in hits : \A j \in hits : i <= j

\* strings.Replace(s, old, new, 1)
ReplaceFirst(s, old, new) ==
    LET i == Index(s, old)
    IN IF i = 0 THEN s
       ELSE SubSeq(s, 1, i - 1) \o new \o SubSeq(s, i + Len(old), Len(s))

RECURSIVE deriveRegisteredPath(_, _)
deriveRegisteredPath(path, ps) ==
    IF ps = <<>> THEN path
    ELSE deriveRegisteredPath(
            ReplaceFirst(path, Head(ps).Value, ":" \o Head(ps).Key), Tail(ps))

-----------------------------------------------------------------------------
(* wrappedHandler, one action per step                                     *)

Init ==
    /\ pc = "idle"
    /\ req = [Method |-> "", Path |-> "", ps |-> <<>>, Accept |-> "", route |-> ""]
    /\ contentType = ContentTypeJSON
    /\ registeredPath = ""
    /\ response = ZeroResponse
    /\ err = Nil
    /\ data = ""
    /\ w = NewResponseWriter
    /\ trace = <<>>
    /\ log = <<>>
    /\ served = 0
    /\ ctxCancelled = FALSE

\* The (method, route template) pair a metric is keyed by
MetricLabel(method, path) == method \o " " \o path

ContextCanceled == "context canceled"

\* ctx is handed to the provider: once it is cancelled the provider may also
\* give up with the context's error
WithContext(outcomes) ==
    outcomes \cup
        (IF ctxCancelled
         THEN {[o EXCEPT !.err = ContextCanceled] : o \in {x \in outcomes : x.err # Nil}}
         ELSE {})

\* The client goes away (or the request times out) while the request is being
\* served and before anything was written: r.Context() is cancelled.
CancelContext ==
    /\ pc \in {"handler", "handlerError", "marshal", "marshalError", "headers", "body"}
    /\ ~ctxCancelled
    /\ ctxCancelled' = TRUE
    /\ trace' = Append(trace, Event("ctx.Cancel", 0, ""))
    /\ UNCHANGED <<pc, req, contentType, registeredPath, response, err, data, w,
                   log, served>>

\* The router matches a GET and enters the wrapper: everything up to the
\* call of the route's handler.
Receive ==
    /\ pc \in {"idle", "done"}
    /\ served < MaxRequests
    /\ \E route \in Routes, accept \in Accepts :
       \E ps \in IF route.key = "" THEN {<<>>}
                 ELSE {<<[Key |-> route.key, Value |-> v]>> : v \in PathValues} :
          LET path == IF ps = <<>> THEN route.prefix
                      ELSE route.prefix \o ps[1].Value \o route.suffix
          IN /\ req' = [Method |-> "GET", Path |-> path, ps |-> ps,
                        Accept |-> accept, route |-> route.name]
             /\ contentType' = NewContentTypeFromRequest(accept)
             /\ registeredPath' = deriveRegisteredPath(path, ps)
             /\ trace' = <<Event("ObserveRequest", 0,
                                 MetricLabel("GET", deriveRegisteredPath(path, ps)))>>
    /\ response' = ZeroResponse
    /\ err' = Nil
    /\ data' = ""
    /\ w' = NewResponseWriter
    /\ log' = <<>>
    /\ pc' = "handler"
    /\ ctxCancelled' = FALSE
    /\ UNCHANGED served

\* p.ByName
ByName(ps, key) ==
    IF \E i \in 1..Len(ps) : ps[i].Key = key
    THEN ps[CHOOSE i \in 1..Len(ps) :
              ps[i].Key = key /\ \A j \in 1..(i - 1) : ps[j].Key # key].Value
    ELSE ""

\* Mutant: the error check after the handler call is missing
Dispatch_AlwaysMarshal(r) ==
    /\ response' = r.rsp
    /\ err' = r.err
    /\ trace' = trace \o [i \in 1..Len(r.calls) |-> Event(r.calls[i].op, 0, r.calls[i].result)]
    /\ pc' = "marshal"
    /\ UNCHANGED <<req, contentType, registeredPath, data, w, log, served, ctxCancelled>>

\* response, err = handler(ctx, r, p, contentType)
Dispatch(r) ==
    /\ response' = r.rsp
    /\ err' = r.err
    /\ trace' = trace \o [i \in 1..Len(r.calls) |-> Event(r.calls[i].op, 0, r.calls[i].result)]
    /\ pc' = IF r.err # Nil THEN "handlerError" ELSE "marshal"
    /\ UNCHANGED <<req, contentType, registeredPath, data, w, log, served, ctxCancelled>>

CallEthV1BeaconBlocksRoot ==
    /\ pc = "handler"
    /\ req.route = "handleEthV1BeaconBlocksRoot"
    /\ \E out \in WithContext(PlainOutcomes) :
          Dispatch(handleEthV1BeaconBlocksRoot(ByName(req.ps, "block_id"), contentType, out))

CallEthV1BeaconStatesHeadFinalityCheckpoints ==
    /\ pc = "handler"
    /\ req.route = "handleEthV1BeaconStatesHeadFinalityCheckpoints"
    /\ \E out \in WithContext(PlainOutcomes) :
          Dispatch(handleEthV1BeaconStatesHeadFinalityCheckpoints(
                      ByName(req.ps, "state_id"), contentType, out))

CallEthV2BeaconBlocks ==
    /\ pc = "handler"
    /\ req.route = "handleEthV2BeaconBlocks"
    /\ \E out \in WithContext(BeaconBlockOutcomes) :
          Dispatch(handleEthV2BeaconBlocks(ByName(req.ps, "block_id"), contentType, out))

CallEthV2DebugBeaconStates ==
    /\ pc = "handler"
    /\ req.route = "handleEthV2DebugBeaconStates"
    /\ \E out \in WithContext(BeaconStateOutcomes) :
          Dispatch(handleEthV2DebugBeaconStates(ByName(req.ps, "state_id"), contentType, out))

CallCheckpointzStatus ==
    /\ pc = "handler"
    /\ req.route = "handleCheckpointzStatus"
    /\ \E out \in WithContext(PlainOutcomes) :
          Dispatch(handleCheckpointzStatus("", contentType, out))

CallCheckpointzBeaconSlots ==
    /\ pc = "handler"
    /\ req.route = "handleCheckpointzBeaconSlots"
    /\ \E out \in WithContext(PlainOutcomes) :
          Dispatch(handleCheckpointzBeaconSlots("", contentType, out))

CallCheckpointzBeaconSlot ==
    /\ pc = "handler"
    /\ req.route = "handleCheckpointzBeaconSlot"
    /\ \E out \in WithContext(PlainOutcomes) :
          Dispatch(handleCheckpointzBeaconSlot(ByName(req.ps, "slot"), contentType, out))

\* Mutant: the response metric is recorded inline on the success path only,
\* the error return leaves without it
WriteHandlerError_NoObserve ==
    /\ pc = "handlerError"
    /\ trace' = Append(trace, Event("WriteErrorResponse", response.StatusCode, err))
    /\ \E ok \in BOOLEAN :
          IF ok
          THEN /\ w' = WriteErrorResponse(w, err, response.StatusCode)
               /\ log' = log
          ELSE /\ w' = w
               /\ log' = Append(log, "Failed to write error response")
    /\ pc' = "done"
    /\ served' = served + 1
    /\ UNCHANGED <<req, contentType, registeredPath, response, err, data, ctxCancelled>>

\* Mutant: the return after writing the handler's error is missing
WriteHandlerError_NoReturn ==
    /\ pc = "handlerError"
    /\ trace' = Append(trace, Event("WriteErrorResponse", response.StatusCode, err))
    /\ \E ok \in BOOLEAN :
          IF ok
          THEN /\ w' = WriteErrorResponse(w, err, response.StatusCode)
               /\ log' = log
          ELSE /\ w' = w
               /\ log' = Append(log, "Failed to write error response")
    /\ pc' = "marshal"
    /\ UNCHANGED <<req, contentType, registeredPath, response, err, data, served, ctxCancelled>>

\* Mutant: every handler error is answered with 500
WriteHandlerError_Always500 ==
    /\ pc = "handlerError"
    /\ trace' = Append(trace, Event("WriteErrorResponse", StatusInternalServerError, err))
    /\ \E ok \in BOOLEAN :
          IF ok
          THEN /\ w' = WriteErrorResponse(w, err, StatusInternalServerError)
               /\ log' = log
          ELSE /\ w' = w
               /\ log' = Append(log, "Failed to write error response")
    /\ pc' = "defer"
    /\ UNCHANGED <<req, contentType, registeredPath, response, err, data, served, ctxCancelled>>

\* if err != nil { WriteErrorResponse(w, err.Error(), response.StatusCode) }
WriteHandlerError ==
    /\ pc = "handlerError"
    /\ trace' = Append(trace, Event("WriteErrorResponse", response.StatusCode, err))
    /\ \E ok \in BOOLEAN :
          IF ok
          THEN /\ w' = WriteErrorResponse(w, err, response.StatusCode)
               /\ log' = log
          ELSE /\ w' = w
               /\ log' = Append(log, "Failed to write error response")
    /\ pc' = "defer"
    /\ UNCHANGED <<req, contentType, registeredPath, response, err, data, served, ctxCancelled>>

\* One event per header copied to the transport
RECURSIVE HeaderEvents(_)
HeaderEvents(names) ==
    IF names = {} THEN <<>>
    ELSE LET n == CHOOSE x \in names : TRUE
         IN <<Event("Header.Set", 0, n)>> \o HeaderEvents(names \ {n})

\* The closure registered for the JSON or SSZ encoding of a fetched object
\* may return an error; the state closure returns the bytes it holds.
ProducerResults(rsp, ct) ==
    IF ct \in DOMAIN rsp.resolvers /\ rsp.resolvers[ct] = "state.bytes"
    THEN {TRUE}
    ELSE BOOLEAN

\* Mutant: the envelope's headers are copied before MarshalAs is tried
Marshal_HeadersFirst ==
    /\ pc = "marshal"
    /\ \E ok \in ProducerResults(response, contentType) :
          LET m == MarshalAs(response, contentType, ok)
          IN /\ data' = m.data
             /\ err' = m.err
             /\ trace' = ((trace \o HeaderEvents(DOMAIN response.Headers))
                             \o <<Event("MarshalAs", 0, contentType)>>)
                            \o [i \in 1..Len(m.invoked) |-> Event("Producer", 0, m.invoked[i])]
             /\ pc' = IF m.err # Nil THEN "marshalError" ELSE "headers"
    /\ w' = [w EXCEPT !.headers =
                [k \in (DOMAIN w.headers) \cup (DOMAIN response.Headers) |->
                    IF k \in DOMAIN response.Headers THEN response.Headers[k]
                    ELSE w.headers[k]]]
    /\ UNCHANGED <<req, contentType, registeredPath, response, log, served, ctxCancelled>>

\* data, err := response.MarshalAs(contentType)
Marshal ==
    /\ pc = "marshal"
    /\ \E ok \in ProducerResults(response, contentType) :
          LET m == MarshalAs(response, contentType, ok)
          IN /\ data' = m.data
             /\ err' = m.err
             /\ trace' = (trace \o <<Event("MarshalAs", 0, contentType)>>)
                            \o [i \in 1..Len(m.invoked) |-> Event("Producer", 0, m.invoked[i])]
             /\ pc' = IF m.err # Nil THEN "marshalError" ELSE "headers"
    /\ UNCHANGED <<req, contentType, registeredPath, response, w, log, served, ctxCancelled>>

\* Mutant: a marshal error is answered with the envelope's own status
WriteMarshalError_EnvelopeStatus ==
    /\ pc = "marshalError"
    /\ trace' = Append(trace, Event("WriteErrorResponse", response.StatusCode, err))
    /\ \E ok \in BOOLEAN :
          IF ok
          THEN /\ w' = WriteErrorResponse(w, err, response.StatusCode)
               /\ log' = log
          ELSE /\ w' = w
               /\ log' = Append(log, "Failed to write error response")
    /\ pc' = "defer"
    /\ UNCHANGED <<req, contentType, registeredPath, response, err, data, served, ctxCancelled>>

\* if err != nil { WriteErrorResponse(w, err.Error(), http.StatusInternalServerError) }
WriteMarshalError ==
    /\ pc = "marshalError"
    /\ trace' = Append(trace, Event("WriteErrorResponse", StatusInternalServerError, err))
    /\ \E ok \in BOOLEAN :
          IF ok
          THEN /\ w' = WriteErrorResponse(w, err, StatusInternalServerError)
               /\ log' = log
          ELSE /\ w' = w
               /\ log' = Append(log, "Failed to write error response")
    /\ pc' = "defer"
    /\ UNCHANGED <<req, contentType, registeredPath, response, err, data, served, ctxCancelled>>

\* for header, value := range response.Headers { w.Header().Set(header, value) }
CopyHeaders ==
    /\ pc = "headers"
    /\ w' = [w EXCEPT !.headers =
                [k \in (DOMAIN w.headers) \cup (DOMAIN response.Headers) |->
                    IF k \in DOMAIN response.Headers THEN response.Headers[k]
                    ELSE w.headers[k]]]
    /\ trace' = trace \o HeaderEvents(DOMAIN response.Headers)
    /\ pc' = "body"
    /\ UNCHANGED <<req, contentType, registeredPath, response, err, data, log, served, ctxCancelled>>

\* WriteContentAwareResponse(w, data, contentType)
WriteBody ==
    /\ pc = "body"
    /\ trace' = Append(trace, Event("WriteContentAwareResponse", 0, data))
    /\ \E ok \in BOOLEAN :
          IF ok
          THEN /\ w' = WriteContentAwareResponse(w, data, contentType)
               /\ log' = log
          ELSE /\ w' = w
               /\ log' = Append(log, "Failed to write response")
    /\ pc' = "defer"
    /\ UNCHANGED <<req, contentType, registeredPath, response, err, data, served, ctxCancelled>>

\* defer func() { h.metrics.ObserveResponse(...) }()
ObserveResponse ==
    /\ pc = "defer"
    /\ trace' = Append(trace, Event("ObserveResponse", response.StatusCode,
                                   MetricLabel(req.Method, registeredPath)))
    /\ served' = served + 1
    /\ pc' = "done"
    /\ UNCHANGED <<req, contentType, registeredPath, response, err, data, w, log,
                   ctxCancelled>>

Next ==
    \/ Receive
    \/ CallEthV1BeaconBlocksRoot
    \/ CallEthV1BeaconStatesHeadFinalityCheckpoints
    \/ CallEthV2BeaconBlocks
    \/ CallEthV2DebugBeaconStates
    \/ CallCheckpointzStatus
    \/ CallCheckpointzBeaconSlots
    \/ CallCheckpointzBeaconSlot
    \/ WriteHandlerError
    \/ Marshal
    \/ WriteMarshalError
    \/ CopyHeaders
    \/ WriteBody
    \/ ObserveResponse
    \/ CancelContext

Spec == Init /\ [][Next]_vars

-----------------------------------------------------------------------------
(* Vocabulary of the properties                                            *)

\* Content types each endpoint accepts
Allowed(route) ==
    IF route = "handleEthV2BeaconBlocks" THEN {ContentTypeJSON, ContentTypeSSZ}
    ELSE IF route = "handleEthV2DebugBeaconStates" THEN {ContentTypeSSZ}
    ELSE {ContentTypeJSON}

IdentifierRoutes ==
    {"handleEthV1BeaconBlocksRoot", "handleEthV1BeaconStatesHeadFinalityCheckpoints",
     "handleEthV2BeaconBlocks", "handleEthV2DebugBeaconStates"}
ParamRoutes == IdentifierRoutes \cup {"handleCheckpointzBeaconSlot"}

InFlight == pc # "idle"
HandlerReturned == pc \notin {"idle", "handler"}
Answered == pc \in {"defer", "done"}

EventsOf(ops) == {i \in 1..Len(trace) : trace[i].op \in ops}
Happened(op) == EventsOf({op}) # {}

\* The raw path parameter of the request in flight ("" when the route has none)
ParamValue == IF req.ps = <<>> THEN "" ELSE req.ps[1].Value

\* The outcome of parsing the path parameter the way the route parses it
Parsed ==
    IF req.route = "handleCheckpointzBeaconSlot" THEN NewSlotFromString(ParamValue)
    ELSE NewIdentifier(ParamValue)

ValidationFails == InFlight /\ contentType \notin Allowed(req.route)
ParseFails ==
    /\ InFlight
    /\ req.route \in ParamRoutes
    /\ ~ValidationFails
    /\ Parsed.err # Nil

\* The handler returned an error (as opposed to MarshalAs failing later)
HandlerFailed == HandlerReturned /\ err # Nil /\ ~Happened("MarshalAs")
MarshalFailed == HandlerReturned /\ err # Nil /\ Happened("MarshalAs")

\* C1: a request whose negotiated content type the endpoint does not accept
\* never reaches a provider operation, its handler returns the 415 envelope
\* with an error, and the response written for it is the 415 error response.
C1_ValidationBeforeProvider ==
    ValidationFails =>
        /\ EventsOf(ProviderOps) = {}
        /\ HandlerReturned =>
              /\ err # Nil
              /\ response.StatusCode = StatusUnsupportedMediaType
        /\ Answered =>
              /\ \E i \in EventsOf({"WriteErrorResponse"}) :
                    trace[i].code = StatusUnsupportedMediaType
              /\ w.status \in {0, StatusUnsupportedMediaType}

C1_Witness ==
    /\ pc = "done"
    /\ req.route = "handleEthV2DebugBeaconStates"
    /\ ParamValue = RootZero
    /\ req.Accept = ContentTypeJSON
    /\ w.status = StatusUnsupportedMediaType

\* C2: on a route with a path parameter, a value that fails to parse ends the
\* request with the 400 error response and no provider operation is invoked;
\* a provider operation is invoked only when validation and parsing succeeded.
C2_ParseBeforeProvider ==
    /\ ParseFails =>
          /\ EventsOf(ProviderOps) = {}
          /\ HandlerReturned =>
                /\ err # Nil
                /\ response.StatusCode = StatusBadRequest
          /\ Answered =>
                /\ \E i \in EventsOf({"WriteErrorResponse"}) :
                      trace[i].code = StatusBadRequest
                /\ w.status \in {0, StatusBadRequest}
    /\ EventsOf(ProviderOps) # {} =>
          /\ ~ValidationFails
          /\ req.route \in ParamRoutes => Parsed.err = Nil

C2_Witness ==
    /\ pc = "done"
    /\ req.route = "handleCheckpointzBeaconSlot"
    /\ ParamValue = "notanumber"
    /\ w.status = StatusBadRequest
    /\ EventsOf(ProviderOps) = {}

\* The status the failure of a handler is to be answered with
FailureStatus ==
    IF ValidationFails THEN StatusUnsupportedMediaType
    ELSE IF ParseFails THEN StatusBadRequest
    ELSE StatusInternalServerError

\* C3: when the handler returned an error, the wrapper calls WriteErrorResponse
\* once, with the status code of the envelope the handler returned; that code
\* is 415 after a validation failure, 400 after a parse failure and 500 after a
\* provider failure, a nil state or an unknown block version; MarshalAs and the
\* success writer are not called.
C3_HandlerErrorStatus ==
    HandlerFailed =>
        /\ response.StatusCode = FailureStatus
        /\ response.StatusCode = StatusInternalServerError => EventsOf(ProviderOps) # {}
        /\ ~Happened("WriteContentAwareResponse")
        /\ ~Happened("Producer")
        /\ Answered =>
              /\ Cardinality(EventsOf({"WriteErrorResponse"})) = 1
              /\ \A i \in EventsOf({"WriteErrorResponse"}) :
                    /\ trace[i].code = response.StatusCode
                    /\ trace[i].info = err
              /\ \/ w = NewResponseWriter
                 \/ /\ w.status = response.StatusCode
                    /\ w.body = err

C3_Witness ==
    /\ pc = "done"
    /\ HandlerFailed
    /\ req.route = "handleEthV2DebugBeaconStates"
    /\ \E i \in EventsOf({"BeaconState"}) : trace[i].info = "nil"
    /\ w.status = StatusInternalServerError

\* C4: when the handler succeeded and MarshalAs failed, the wrapper calls
\* WriteErrorResponse with 500, copies no envelope header to the transport
\* and does not call the success writer.
C4_MarshalError ==
    (Answered /\ MarshalFailed) =>
        /\ Cardinality(EventsOf({"WriteErrorResponse"})) = 1
        /\ \A i \in EventsOf({"WriteErrorResponse"}) :
              trace[i].code = StatusInternalServerError
        /\ ~Happened("Header.Set")
        /\ ~Happened("WriteContentAwareResponse")
        /\ DOMAIN w.headers \subseteq {"Content-Type"}
        /\ \/ w = NewResponseWriter
           \/ /\ w.status = StatusInternalServerError
              /\ w.body = err

C4_Witness ==
    /\ pc = "done"
    /\ MarshalFailed
    /\ "Cache-Control" \in DOMAIN response.Headers
    /\ response.StatusCode = StatusOK
    /\ w.status = StatusInternalServerError

\* C5: an envelope header is copied to the transport only after the handler
\* returned no error and MarshalAs succeeded, every such copy precedes the
\* body write, and a request answered with an error response has no envelope
\* header on the transport.
C5_HeadersOnlyOnSuccess ==
    /\ \A i \in EventsOf({"Header.Set"}) :
          /\ err = Nil
          /\ \E m \in EventsOf({"MarshalAs"}) : m < i
          /\ ~Happened("WriteErrorResponse")
          /\ \A j \in EventsOf({"WriteContentAwareResponse", "WriteErrorResponse"}) : i < j
    /\ "Cache-Control" \in DOMAIN w.headers =>
          /\ Happened("Header.Set")
          /\ w.headers["Cache-Control"] = response.Headers["Cache-Control"]
    /\ Happened("WriteErrorResponse") =>
          /\ ~Happened("Header.Set")
          /\ DOMAIN w.headers \subseteq {"Content-Type"}
    /\ Happened("WriteContentAwareResponse") =>
          \A k \in DOMAIN response.Headers :
              /\ k \in DOMAIN w.headers
              /\ w.headers[k] = response.Headers[k]
              /\ \E i \in EventsOf({"Header.Set"}) : trace[i].info = k

C5_Witness ==
    /\ pc = "done"
    /\ Happened("Header.Set")
    /\ w.status = StatusOK
    /\ "Cache-Control" \in DOMAIN w.headers
    /\ w.headers["Cache-Control"] = "public, s-max-age=180"

-----------------------------------------------------------------------------
(* Reading a Cache-Control directive                                       *)

DigitValue(c) ==
    CASE c = "0" -> 0 [] c = "1" -> 1 [] c = "2" -> 2 [] c = "3" -> 3
      [] c = "4" -> 4 [] c = "5" -> 5 [] c = "6" -> 6 [] c = "7" -> 7
      [] c = "8" -> 8 [] c = "9" -> 9

\* The number spelled by the leading decimal digits of s
RECURSIVE LeadingNumber(_, _)
LeadingNumber(s, acc) ==
    IF Len(s) = 0 \/ SubSeq(s, 1, 1) \notin Digits THEN acc
    ELSE LeadingNumber(SubSeq(s, 2, Len(s)), 10 * acc + DigitValue(SubSeq(s, 1, 1)))

\* The seconds of the s-max-age field of a directive, -1 when it has none
SMaxAge(directive) ==
    LET i == Index(directive, "s-max-age=")
    IN IF i = 0 THEN -1
       ELSE LeadingNumber(SubSeq(directive, i + Len("s-max-age="), Len(directive)), 0)

IsPublic(directive) == Index(directive, "public") # 0

\* The directive an endpoint's switch puts on a fresh success envelope
BlocksDirective(idType) ==
    BlocksCacheControl(NewSuccessResponse(EmptyMap), idType).Headers["Cache-Control"]
StatesDirective(idType) ==
    StatesCacheControl(NewSuccessResponse(EmptyMap), idType).Headers["Cache-Control"]

\* The handler of the request in flight returned an envelope and no error
HandlerSucceeded == HandlerReturned /\ ~HandlerFailed

\* The success body reached the transport
Delivered == Happened("WriteContentAwareResponse") /\ w.status = StatusOK

\* C6 (as claimed): every successful response on a route with a block or state
\* identifier carries a Cache-Control header, and on a Root, Genesis or Slot
\* identifier it is "public, s-max-age=6000" (so for blocks/123/root).
C6_CacheControlOnEveryIdentifierRoute ==
    (Delivered /\ req.route \in IdentifierRoutes) =>
        /\ "Cache-Control" \in DOMAIN w.headers
        /\ Parsed.type \in {IDRoot, IDGenesis, IDSlot} =>
              w.headers["Cache-Control"] = "public, s-max-age=6000"

TTLOrdered(Directive(_)) ==
    /\ \A t \in IDTypes : IsPublic(Directive(t)) /\ SMaxAge(Directive(t)) >= 0
    /\ SMaxAge(Directive(IDRoot)) >= SMaxAge(Directive(IDFinalized))
    /\ SMaxAge(Directive(IDFinalized)) >= SMaxAge(Directive(IDHead))
    /\ SMaxAge(Directive(IDGenesis)) = SMaxAge(Directive(IDRoot))
    /\ SMaxAge(Directive(IDSlot)) = SMaxAge(Directive(IDRoot))

\* The TTL a successful response carries lies where its variant belongs
TTLInOrder(ttl, idType, Directive(_)) ==
    /\ idType \in {IDRoot, IDGenesis, IDSlot} => ttl = SMaxAge(Directive(IDRoot))
    /\ idType = IDFinalized =>
          /\ SMaxAge(Directive(IDRoot)) >= ttl
          /\ ttl >= SMaxAge(Directive(IDHead))
    /\ idType = IDHead => SMaxAge(Directive(IDFinalized)) >= ttl

\* C7: on the v2 blocks endpoint and on the v2 debug states endpoint the
\* s-max-age of Root is at least that of Finalized, which is at least that of
\* Head, Genesis and Slot have Root's; and the directive a successful response
\* of either endpoint carries obeys that order for its identifier's variant.
C7_TTLOrdering ==
    /\ TTLOrdered(BlocksDirective)
    /\ TTLOrdered(StatesDirective)
    /\ (HandlerSucceeded /\ req.route = "handleEthV2BeaconBlocks") =>
          /\ "Cache-Control" \in DOMAIN response.Headers
          /\ TTLInOrder(SMaxAge(response.Headers["Cache-Control"]), Parsed.type,
                        BlocksDirective)
    /\ (HandlerSucceeded /\ req.route = "handleEthV2DebugBeaconStates") =>
          /\ "Cache-Control" \in DOMAIN response.Headers
          /\ TTLInOrder(SMaxAge(response.Headers["Cache-Control"]), Parsed.type,
                        StatesDirective)

C7_Witness ==
    /\ pc = "done"
    /\ req.route = "handleEthV2DebugBeaconStates"
    /\ Parsed.type = IDFinalized
    /\ Delivered
    /\ SMaxAge(w.headers["Cache-Control"]) = 180

\* The encoders of one fork version, by content type
VersionProducers(version) ==
    LET field == CASE version = DataVersionPhase0 -> "Phase0"
                   [] version = DataVersionAltair -> "Altair"
                   [] version = DataVersionBellatrix -> "Bellatrix"
    IN Resolvers(field \o ".MarshalJSON", field \o ".MarshalSSZ")

KnownVersions == {DataVersionPhase0, DataVersionAltair, DataVersionBellatrix}

\* C8: when the v2 blocks handler succeeds, the envelope's producers are those
\* of the fetched block's version and no others, the only producer invoked is
\* that version's encoder for the negotiated content type, and its bytes are
\* the body written with 200; for head, SSZ and a Bellatrix block the body is
\* the Bellatrix SSZ encoding and Cache-Control is "public, s-max-age=30".
C8_BlockProducersMatchVersion ==
    (HandlerSucceeded /\ req.route = "handleEthV2BeaconBlocks") =>
        /\ Cardinality(EventsOf({"BeaconBlock"})) = 1
        /\ \A b \in EventsOf({"BeaconBlock"}) :
              LET version == trace[b].info
              IN /\ version \in KnownVersions
                 /\ response.StatusCode = StatusOK
                 /\ response.resolvers = VersionProducers(version)
                 /\ \A i \in EventsOf({"Producer"}) :
                       trace[i].info = VersionProducers(version)[contentType]
                 /\ Delivered =>
                       /\ w.body = VersionProducers(version)[contentType]
                       /\ w.headers["Content-Type"] = contentType
                 /\ (/\ Delivered
                     /\ Parsed.type = IDHead
                     /\ contentType = ContentTypeSSZ
                     /\ version = DataVersionBellatrix) =>
                       /\ w.body = "Bellatrix.MarshalSSZ"
                       /\ w.headers["Cache-Control"] = "public, s-max-age=30"

C8_Witness ==
    /\ pc = "done"
    /\ req.Path = "/eth/v2/beacon/blocks/head"
    /\ req.Accept = ContentTypeSSZ
    /\ \E b \in EventsOf({"BeaconBlock"}) : trace[b].info = DataVersionBellatrix
    /\ w.status = StatusOK
    /\ w.body = "Bellatrix.MarshalSSZ"

\* The block provider answered with a version tag outside Phase0/Altair/Bellatrix
UnknownVersionFetched ==
    \E b \in EventsOf({"BeaconBlock"}) : trace[b].info \notin KnownVersions \cup {"error"}

\* C9: when the block provider returns a block of an unknown version, the
\* handler returns an error with the 500 envelope and no producers, MarshalAs
\* and every producer stay uncalled, the 500 error response is what is written,
\* and no Cache-Control header reaches the transport.
C9_UnknownVersionFailsClosed ==
    (HandlerReturned /\ UnknownVersionFetched) =>
        /\ err # Nil
        /\ response.StatusCode = StatusInternalServerError
        /\ DOMAIN response.resolvers = {}
        /\ DOMAIN response.Headers = {}
        /\ EventsOf({"MarshalAs", "Producer", "Header.Set", "WriteContentAwareResponse"}) = {}
        /\ "Cache-Control" \notin DOMAIN w.headers
        /\ w.status \in {0, StatusInternalServerError}
        /\ Answered =>
              \E i \in EventsOf({"WriteErrorResponse"}) :
                  trace[i].code = StatusInternalServerError

C9_Witness ==
    /\ pc = "done"
    /\ req.route = "handleEthV2BeaconBlocks"
    /\ UnknownVersionFetched
    /\ w.status = StatusInternalServerError
    /\ w.body = "unknown block version"

\* C10 (as claimed): whatever the values of the path parameters, the route
\* template derived for a request is the pattern its route was registered
\* under, so two requests to one route never differ in their template.
C10_TemplateStable ==
    InFlight =>
        \A route \in Routes :
            route.name = req.route => registeredPath = Template(route)

-----------------------------------------------------------------------------
(* Metrics, producers, cancellation, retries                               *)

WriteOps == {"WriteErrorResponse", "WriteContentAwareResponse"}

\* C11: for every request the request counter is incremented once, as the
\* first thing recorded and so before the handler and its provider call; the
\* response counter/duration is observed once, as the last thing recorded and
\* so after the one response write, on the success path, the handler-error
\* path and the marshal-error path alike; both carry the same method and
\* route template.
C11_MetricsOncePerRequest ==
    /\ InFlight =>
          /\ EventsOf({"ObserveRequest"}) = {1}
          /\ trace[1].info = MetricLabel(req.Method, registeredPath)
    /\ pc # "done" => ~Happened("ObserveResponse")
    /\ pc = "done" =>
          /\ EventsOf({"ObserveResponse"}) = {Len(trace)}
          /\ trace[Len(trace)].info = trace[1].info
          /\ Cardinality(EventsOf(WriteOps)) = 1
          /\ \A i \in EventsOf(WriteOps \cup ProviderOps \cup {"MarshalAs"}) :
                1 < i /\ i < Len(trace)

C11_Witness ==
    /\ pc = "done"
    /\ MarshalFailed
    /\ trace[1].info = "GET /eth/v2/beacon/blocks/:block_id"
    /\ trace[Len(trace)].op = "ObserveResponse"
    /\ w.status = StatusInternalServerError

\* C12: MarshalAs is called at most once per request and only when the handler
\* returned no error; at most one producer is invoked per request, by that
\* MarshalAs call, and it is the one the envelope registers for the negotiated
\* content type; nothing is invoked while the handler runs or on an error path.
C12_OnlyNegotiatedProducer ==
    /\ Cardinality(EventsOf({"MarshalAs"})) <= 1
    /\ Cardinality(EventsOf({"Producer"})) <= 1
    /\ pc \in {"handler", "handlerError", "marshal"} =>
          EventsOf({"MarshalAs", "Producer"}) = {}
    /\ pc = "marshal" => err = Nil
    /\ pc = "handlerError" => err # Nil
    /\ Happened("MarshalAs") => response.StatusCode = StatusOK
    /\ \A i \in EventsOf({"Producer"}) :
          /\ i > 1
          /\ trace[i - 1].op = "MarshalAs"
          /\ trace[i - 1].info = contentType
          /\ contentType \in DOMAIN response.resolvers
          /\ trace[i].info = response.resolvers[contentType]

C12_Witness ==
    /\ pc = "done"
    /\ req.route = "handleEthV2BeaconBlocks"
    /\ contentType = ContentTypeSSZ
    /\ DOMAIN response.resolvers = {ContentTypeJSON, ContentTypeSSZ}
    /\ \E i \in EventsOf({"Producer"}) : trace[i].info = "Altair.MarshalSSZ"
    /\ Delivered

\* C13 (as claimed): once the request's context is cancelled before a
\* response was produced, nothing is written to the connection and the
\* response counter/duration is not recorded for that request.
C13_CancelledRequestWritesNothing ==
    \A c \in EventsOf({"ctx.Cancel"}) :
        \A j \in EventsOf(WriteOps \cup {"ObserveResponse"}) : j < c

\* C14: a request is answered by one call of one of the two writers; no
\* provider operation, MarshalAs or writer is ever called a second time, and
\* a write the transport refused is logged and followed by nothing but the
\* deferred metric.
C14_OneWriteNoRetry ==
    /\ Cardinality(EventsOf(WriteOps)) <= 1
    /\ Answered => Cardinality(EventsOf(WriteOps)) = 1
    /\ ~Answered => EventsOf(WriteOps) = {}
    /\ Cardinality(EventsOf(ProviderOps)) <= 1
    /\ Cardinality(EventsOf({"MarshalAs"})) <= 1
    /\ Len(log) <= 1
    /\ log # <<>> =>
          /\ Answered
          /\ w.status = 0
          /\ w.body = ""
          /\ \A i \in EventsOf(WriteOps) :
                \A j \in (i + 1)..Len(trace) : trace[j].op = "ObserveResponse"

C14_Witness ==
    /\ pc = "done"
    /\ log = <<"Failed to write response">>
    /\ Cardinality(EventsOf(WriteOps)) = 1
    /\ w.status = 0

\* The directive of an endpoint for an identifier variant ("" where the
\* endpoint sets none)
DirectiveOf(route, idType) ==
    IF route = "handleEthV2BeaconBlocks" THEN BlocksDirective(idType)
    ELSE IF route = "handleEthV2DebugBeaconStates" THEN StatesDirective(idType)
    ELSE ""

\* C15: the Cache-Control of a successful response is the entry of a table
\* keyed by endpoint and identifier variant alone, so two successful requests
\* to one endpoint with the same variant carry the same directive whatever the
\* block's version, the content type or the identifier's value; Root, Genesis
\* and Slot have one and the same entry.
C15_DirectiveByVariantAndEndpoint ==
    /\ \A route \in IdentifierRoutes :
          /\ DirectiveOf(route, IDGenesis) = DirectiveOf(route, IDRoot)
          /\ DirectiveOf(route, IDSlot) = DirectiveOf(route, IDRoot)
    /\ (HandlerSucceeded /\ req.route \in IdentifierRoutes) =>
          IF DirectiveOf(req.route, Parsed.type) = ""
          THEN DOMAIN response.Headers = {}
          ELSE /\ DOMAIN response.Headers = {"Cache-Control"}
               /\ response.Headers["Cache-Control"] = DirectiveOf(req.route, Parsed.type)
    /\ (Delivered /\ "Cache-Control" \in DOMAIN w.headers) =>
          w.headers["Cache-Control"] = DirectiveOf(req.route, Parsed.type)

C15_Witness ==
    /\ pc = "done"
    /\ Delivered
    /\ req.route = "handleEthV2BeaconBlocks"
    /\ ParamValue = "genesis"
    /\ contentType = ContentTypeJSON
    /\ \E b \in EventsOf({"BeaconBlock"}) : trace[b].info = DataVersionPhase0
    /\ w.headers["Cache-Control"] = DirectiveOf("handleEthV2BeaconBlocks", IDRoot)

\* C16 (as claimed): the status code ObserveResponse is labelled with is the
\* status code of the response written for the request, on every path.
C16_StatusLabelMatchesWritten ==
    pc = "done" =>
        \A o \in EventsOf({"ObserveResponse"}) :
            /\ \A e \in EventsOf({"WriteErrorResponse"}) : trace[o].code = trace[e].code
            /\ Happened("WriteContentAwareResponse") => trace[o].code = StatusOK
            /\ w.status # 0 => trace[o].code = w.status

\* The request in flight has a content type its endpoint rejects and a path
\* parameter its endpoint cannot parse
BothFail ==
    /\ InFlight
    /\ req.route \in ParamRoutes
    /\ contentType \notin Allowed(req.route)
    /\ Parsed.err # Nil

\* C17: a request with both an unsupported content type and an unparseable
\* path parameter is answered with 415 and never with 400.
C17_ValidationBeforeParsing ==
    (BothFail /\ HandlerReturned) =>
        /\ err # Nil
        /\ response.StatusCode = StatusUnsupportedMediaType
        /\ \A e \in EventsOf({"WriteErrorResponse"}) :
              trace[e].code = StatusUnsupportedMediaType
        /\ w.status \in {0, StatusUnsupportedMediaType}
        /\ Answered => Happened("WriteErrorResponse")

C17_Witness ==
    /\ pc = "done"
    /\ req.Path = "/checkpointz/v1/beacon/slots/notanumber"
    /\ req.Accept = ContentTypeSSZ
    /\ w.status = StatusUnsupportedMediaType

====
